---- MODULE Spec2Model ----
(***************************************************************************)
(* RAGSystem.query (backend/rag_system.py) and the URL safety validator    *)
(* its tests import.  Python values are encoded as follows: a string that  *)
(* is inspected character by character (a link) is a sequence of one-      *)
(* character strings; None, where a link may stand, is NoneVal; a source   *)
(* is a record whose kind tells the Python type and whose fields hold the  *)
(* value under each key, ABSENT when the key is missing, NONE when the     *)
(* value is None.                                                          *)
(***************************************************************************)
EXTENDS Integers, Sequences, FiniteSets, TLC

\* ------------------------------------------------------------------ bounds
\* longest list of sources one tool call records
MaxBatch == 2
\* longest remainder (after the scheme and its colon) of a candidate URL
MaxRest == 3
\* most entries of a course folder
MaxFiles == 2

\* ------------------------------------------------------------------ values
ABSENT == "<absent>"
NONE == "<None>"
NoneVal == <<"<None>">>
RAISE == <<"<raise>">>

Threads == {1, 2}

\* Python truthiness of a link value (None and "" are falsy)
Truthy(v) == v # NoneVal /\ v # <<>>

\* ------------------------------------------------------------------ URLs
Uppers == <<"A", "B", "C", "D", "E", "F", "G", "H", "I", "J", "K", "L", "M",
            "N", "O", "P", "Q", "R", "S", "T", "U", "V", "W", "X", "Y", "Z">>
Lowers == <<"a", "b", "c", "d", "e", "f", "g", "h", "i", "j", "k", "l", "m",
            "n", "o", "p", "q", "r", "s", "t", "u", "v", "w", "x", "y", "z">>

UpperLetters == {Uppers[k] : k \in 1..Len(Uppers)}
LowerLetters == {Lowers[k] : k \in 1..Len(Lowers)}

IsAlpha(c) == c \in LowerLetters \/ c \in UpperLetters

\* characters a scheme may be made of: letters, digits, "+", "-", "."
SchemeChars == LowerLetters \cup UpperLetters \cup {"0", "1", "+", "-", "."}

\* str.lower() on one character
Lower(c) ==
    IF c \in UpperLetters
    THEN Lowers[CHOOSE k \in 1..Len(Uppers) : Uppers[k] = c]
    ELSE c

\* str.upper() on one character
Upper(c) ==
    IF c \in LowerLetters
    THEN Uppers[CHOOSE k \in 1..Len(Lowers) : Lowers[k] = c]
    ELSE c

\* index of the first ":" of url, 0 when there is none (str.find + 1)
ColonPos(url) ==
    IF \E k \in 1..Len(url) : url[k] = ":"
    THEN CHOOSE k \in 1..Len(url) :
            url[k] = ":" /\ \A j \in 1..(k - 1) : url[j] # ":"
    ELSE 0

\* the scheme of url, lower-cased; <<>> when url has no scheme
UrlScheme(url) ==
    LET i == ColonPos(url) IN
    IF i > 1 /\ IsAlpha(url[1]) /\ \A k \in 1..(i - 1) : url[k] \in SchemeChars
    THEN [k \in 1..(i - 1) |-> Lower(url[k])]
    ELSE <<>>

Http == <<"h", "t", "t", "p">>
Https == <<"h", "t", "t", "p", "s">>

\* the scheme is compared as written, without lower-casing
is_safe_url_noLower(url) ==
    /\ url # NoneVal
    /\ url # <<>>
    /\ LET i == ColonPos(url) IN
       i > 1 /\ SubSeq(url, 1, i - 1) \in {Http, Https}

\* true exactly for an absolute URL whose scheme is http or https
is_safe_url(url) ==
    /\ url # NoneVal
    /\ url # <<>>
    /\ UrlScheme(url) \in {Http, Https}

\* ------------------------------------------------------------------ sources
NonDict(kind) ==
    [kind |-> kind, text |-> ABSENT, course_title |-> ABSENT, lesson_number |-> ABSENT]

Src(text, course_title, lesson_number) ==
    [kind |-> "dict", text |-> text, course_title |-> course_title,
     lesson_number |-> lesson_number]

\* the shapes of source the tests of query feed it: values that are no
\* mapping, a mapping without text, and mappings with text whose
\* course_title and lesson_number are present, None, empty or missing
SourceVals ==
    { NonDict("str"), NonDict("int"), NonDict("NoneType"), NonDict("list"),
      Src(ABSENT, ABSENT, ABSENT),
      Src("A", "Python", "1"),
      Src("B", "Python", "0"),
      Src("A", "Python", NONE),
      Src("B", NONE, "1"),
      Src("A", "", "1"),
      Src("B", ABSENT, ABSENT),
      Src("A", ABSENT, "1"),
      Src("B", "Python", ABSENT) }

SeqsUpTo(S, n) == UNION {[1..k -> S] : k \in 0..n}

\* the non-empty lists of sources a search may record
Batches == SeqsUpTo(SourceVals, MaxBatch) \ {<<>>}

\* sources that are well formed and complete, for the runs of two queries
ConcBatches ==
    SeqsUpTo({Src("A", "Python", "1"), Src("B", "Python", "0")}, 1) \ {<<>>}

LinkA == <<"h", "t", "t", "p", "s", ":", "/", "/", "e">>
LinkB == <<"h", "t", "t", "p", ":", "/", "/", "f">>
LinkJs == <<"j", "a", "v", "a", "s", "c", "r", "i", "p", "t", ":", "a">>
LinkBare == <<"e">>

\* what one call of vector_store.get_lesson_link may do
LookupOutcomes == {NoneVal, <<>>, LinkA, LinkB, LinkJs, LinkBare, RAISE}

\* the same without the error, for the runs of two queries
LookupReturns == {NoneVal, LinkA, LinkB}

\* the user's question, as a sequence of pieces of text
Query1 == <<"test query">>
Query2 == <<"other query">>

\* what the language model answers
Response == <<"Test response">>

\* the arguments of one query call
Req(query, session_id) == [query |-> query, session_id |-> session_id]

\* a call without a session and a call with one
Requests == {Req(Query2, NONE), Req(Query1, "session_1")}

\* the calls of the runs of two queries
ConcRequests == {Req(Query1, NONE)}

\* ------------------------------------------------------------------ state
VARIABLES
    last_sources,      \* the sources the search tool holds (ToolManager)
    pc,                \* per query thread: where in query it is
    raw_sources,       \* per thread: local raw_sources
    enhanced_sources,  \* per thread: local enhanced_sources
    idx,               \* per thread: position of the for loop (1-based)
    exc,               \* per thread: the exception that left query, "" if none
    recorded,          \* history: the sources this query's tool call recorded
    lookup_calls,      \* history: the get_lesson_link calls of this query
    tm_calls,          \* history: the ToolManager calls of this query
    request,           \* per thread: the arguments of query (query, session_id)
    sm_calls,          \* history: the add_exchange calls of this query
    catalog,           \* vector store: the titles that have course metadata
    content,           \* vector store: the chunks held, as (title, index)
    dpc,               \* where add_course_folder is: "idle", "loop", "done"
    ingest,            \* the ingestion call under way or last made
    files,             \* os.listdir(folder_path)
    fidx,              \* position of the loop over the files (1-based)
    existing_course_titles,  \* local of add_course_folder
    total_courses,     \* local of add_course_folder, then its first result
    total_chunks,      \* local of add_course_folder, then its second result
    doc_ret,           \* what add_course_document returned
    before,            \* history: the vector store when the call was made
    adds,              \* history: the additions to the store made by the call
    cand,              \* the candidate handed to is_safe_url
    verdict            \* what is_safe_url returned for it, "pending" before

queryVars == <<last_sources, pc, raw_sources, enhanced_sources, idx, exc,
               recorded, lookup_calls, tm_calls, request, sm_calls>>

docVars == <<catalog, content, dpc, ingest, files, fidx, existing_course_titles,
             total_courses, total_chunks, doc_ret, before, adds>>

vars == <<last_sources, pc, raw_sources, enhanced_sources, idx, exc,
          recorded, lookup_calls, tm_calls, request, sm_calls,
          catalog, content, dpc, ingest, files, fidx, existing_course_titles,
          total_courses, total_chunks, doc_ret, before, adds, cand, verdict>>

NoCandidate == [kind |-> "none", scheme |-> <<>>, rest |-> <<>>, url |-> NoneVal]

QueryInit ==
    /\ last_sources = <<>>
    /\ pc = [t \in Threads |-> "idle"]
    /\ raw_sources = [t \in Threads |-> <<>>]
    /\ enhanced_sources = [t \in Threads |-> <<>>]
    /\ idx = [t \in Threads |-> 1]
    /\ exc = [t \in Threads |-> ""]
    /\ recorded = [t \in Threads |-> <<>>]
    /\ lookup_calls = [t \in Threads |-> <<>>]
    /\ tm_calls = [t \in Threads |-> <<>>]
    /\ request = [t \in Threads |-> Req(Query1, NONE)]
    /\ sm_calls = [t \in Threads |-> <<>>]

NoCall == [op |-> "none", exists |-> FALSE, clear_existing |-> FALSE]
NoDoc == [course |-> NONE, chunks |-> 0]

\* a new, empty vector store and no ingestion call made yet
DocInit ==
    /\ catalog = {}
    /\ content = {}
    /\ dpc = "idle"
    /\ ingest = NoCall
    /\ files = <<>>
    /\ fidx = 1
    /\ existing_course_titles = {}
    /\ total_courses = 0
    /\ total_chunks = 0
    /\ doc_ret = NoDoc
    /\ before = [catalog |-> {}, content |-> {}]
    /\ adds = <<>>

Init ==
    /\ QueryInit
    /\ DocInit
    /\ cand = NoCandidate
    /\ verdict = "pending"

\* ------------------------------------------------------------------ query
\* dict.get(key): None when the key is missing
DictGet(v) == IF v = ABSENT THEN NONE ELSE v

\* source["text"] evaluates without an exception
HasText(source) == source.kind = "dict" /\ source.text # ABSENT

\* the exception source["text"] raises otherwise
TextError(source) == IF source.kind = "dict" THEN "KeyError" ELSE "TypeError"

\* the condition under which query asks for the lesson link
NeedsLookup(source) == DictGet(source.lesson_number) # NONE

\* the link is never attached
SourceItem_noLink(source, lesson_link) ==
    [text |-> source.text, link |-> NoneVal]

\* the citation built from a source and what the lookup returned for it
SourceItem(source, lesson_link) ==
    [text |-> source.text,
     link |-> IF Truthy(lesson_link) THEN lesson_link ELSE NoneVal]

\* query is entered: its locals are fresh
StartQuery(t, requests) ==
    /\ pc[t] \in {"idle", "returned", "raised"}
    /\ \E r \in requests : request' = [request EXCEPT ![t] = r]
    /\ sm_calls' = [sm_calls EXCEPT ![t] = <<>>]
    /\ pc' = [pc EXCEPT ![t] = "generate"]
    /\ raw_sources' = [raw_sources EXCEPT ![t] = <<>>]
    /\ enhanced_sources' = [enhanced_sources EXCEPT ![t] = <<>>]
    /\ idx' = [idx EXCEPT ![t] = 1]
    /\ exc' = [exc EXCEPT ![t] = ""]
    /\ recorded' = [recorded EXCEPT ![t] = <<>>]
    /\ lookup_calls' = [lookup_calls EXCEPT ![t] = <<>>]
    /\ tm_calls' = [tm_calls EXCEPT ![t] = <<>>]
    /\ UNCHANGED <<last_sources, cand, verdict>>
    /\ UNCHANGED docVars

\* ai_generator.generate_response: the model may call the search tool, which
\* records the sources of its results, or answer without a search that
\* found anything
GenerateResponse(t, batches) ==
    /\ pc[t] = "generate"
    /\ \/ \E b \in batches :
            /\ last_sources' = b
            /\ recorded' = [recorded EXCEPT ![t] = b]
       \/ UNCHANGED <<last_sources, recorded>>
    /\ pc' = [pc EXCEPT ![t] = "read"]
    /\ UNCHANGED <<raw_sources, enhanced_sources, idx, exc, lookup_calls,
                   tm_calls, request, sm_calls,
                   cand, verdict>>
    /\ UNCHANGED docVars

\* raw_sources = self.tool_manager.get_last_sources()
GetLastSources(t) ==
    /\ pc[t] = "read"
    /\ raw_sources' = [raw_sources EXCEPT ![t] = last_sources]
    /\ tm_calls' = [tm_calls EXCEPT ![t] = Append(@, "get_last_sources")]
    /\ pc' = [pc EXCEPT ![t] = "loop"]
    /\ UNCHANGED <<last_sources, enhanced_sources, idx, exc, recorded,
                   lookup_calls, request, sm_calls,
                   cand, verdict>>
    /\ UNCHANGED docVars

\* an exception leaves query: nothing after the raising statement runs
Raise(t, e) ==
    /\ pc' = [pc EXCEPT ![t] = "raised"]
    /\ exc' = [exc EXCEPT ![t] = e]
    /\ UNCHANGED <<enhanced_sources, idx>>

\* one iteration of the for loop over raw_sources
LoopBody(t, outcomes) ==
    /\ pc[t] = "loop"
    /\ idx[t] <= Len(raw_sources[t])
    /\ LET source == raw_sources[t][idx[t]] IN
       IF ~HasText(source)
       THEN /\ Raise(t, TextError(source))
            /\ UNCHANGED lookup_calls
       ELSE IF ~NeedsLookup(source)
       THEN /\ enhanced_sources' =
                  [enhanced_sources EXCEPT ![t] = Append(@, SourceItem(source, NoneVal))]
            /\ idx' = [idx EXCEPT ![t] = @ + 1]
            /\ UNCHANGED <<pc, exc, lookup_calls>>
       ELSE IF source.course_title = ABSENT
       THEN /\ Raise(t, "KeyError")
            /\ UNCHANGED lookup_calls
       ELSE \E r \in outcomes :
            /\ lookup_calls' =
                  [lookup_calls EXCEPT ![t] =
                     Append(@, [at |-> idx[t],
                                course_title |-> source.course_title,
                                lesson_number |-> source.lesson_number,
                                result |-> r])]
            /\ IF r = RAISE
               THEN Raise(t, "LookupError")
               ELSE /\ enhanced_sources' =
                          [enhanced_sources EXCEPT ![t] = Append(@, SourceItem(source, r))]
                    /\ idx' = [idx EXCEPT ![t] = @ + 1]
                    /\ UNCHANGED <<pc, exc>>
    /\ UNCHANGED <<last_sources, raw_sources, recorded, tm_calls, request, sm_calls,
                   cand, verdict>>
    /\ UNCHANGED docVars

\* self.tool_manager.reset_sources(), once the loop is over
ResetSources(t) ==
    /\ pc[t] = "loop"
    /\ idx[t] > Len(raw_sources[t])
    /\ last_sources' = <<>>
    /\ tm_calls' = [tm_calls EXCEPT ![t] = Append(@, "reset_sources")]
    /\ pc' = [pc EXCEPT ![t] = "update"]
    /\ UNCHANGED <<raw_sources, enhanced_sources, idx, exc, recorded,
                   lookup_calls, request, sm_calls,
                   cand, verdict>>
    /\ UNCHANGED docVars

\* f"""Answer this question about course materials: {query}"""
Prompt(query) == <<"Answer this question about course materials: ">> \o query

\* Python truthiness of session_id (None and "" are falsy)
HasSession(session_id) == session_id # NONE /\ session_id # ""

\* the arguments of self.session_manager.add_exchange(...)
Exchange(r) ==
    [session_id |-> r.session_id, user_message |-> r.query, response |-> Response]

\* if session_id: add_exchange(...); return response, enhanced_sources
Return(t) ==
    /\ pc[t] = "update"
    /\ sm_calls' = [sm_calls EXCEPT ![t] =
                      IF HasSession(request[t].session_id)
                      THEN Append(@, Exchange(request[t]))
                      ELSE @]
    /\ pc' = [pc EXCEPT ![t] = "returned"]
    /\ UNCHANGED <<last_sources, raw_sources, enhanced_sources, idx, exc,
                   recorded, lookup_calls, tm_calls, request, cand, verdict>>
    /\ UNCHANGED docVars

\* one step of the query running on thread t
QueryStep(t, requests, batches, outcomes) ==
    \/ StartQuery(t, requests)
    \/ GenerateResponse(t, batches)
    \/ GetLastSources(t)
    \/ LoopBody(t, outcomes)
    \/ ResetSources(t)
    \/ Return(t)

\* queries one after the other, on one thread
Next == QueryStep(1, Requests, Batches, LookupOutcomes)

Spec == Init /\ [][Next]_vars

\* two queries on the same RAGSystem, in any interleaving
NextConc == \E t \in Threads : QueryStep(t, ConcRequests, ConcBatches, LookupReturns)

SpecConc == Init /\ [][NextConc]_vars

\* ------------------------------------------------------------------ is_safe_url
Chars(n) ==
    CASE n = "http" -> Http
      [] n = "https" -> Https
      [] n = "javascript" -> <<"j", "a", "v", "a", "s", "c", "r", "i", "p", "t">>
      [] n = "data" -> <<"d", "a", "t", "a">>
      [] n = "vbscript" -> <<"v", "b", "s", "c", "r", "i", "p", "t">>
      [] n = "file" -> <<"f", "i", "l", "e">>
      [] n = "about" -> <<"a", "b", "o", "u", "t">>
      [] n = "ftp" -> <<"f", "t", "p">>

SchemeNames == {"http", "https", "javascript", "data", "vbscript", "file", "about", "ftp"}

\* a scheme as written: all lower case, all upper case, or alternating
Written(s, case) ==
    [k \in 1..Len(s) |->
        CASE case = "lower" -> s[k]
          [] case = "upper" -> Upper(s[k])
          [] case = "mixed" -> IF k % 2 = 1 THEN Upper(s[k]) ELSE s[k]]

Cases == {"lower", "upper", "mixed"}

\* what follows the scheme: paths, query strings, fragments, percent escapes
RestChars == {"/", "e", "?", "#", "%", ":"}
Rests == SeqsUpTo(RestChars, MaxRest)
HasColon(s) == \E k \in 1..Len(s) : s[k] = ":"

BareRests == {r \in Rests : ~HasColon(r)}

\* a scheme in some letter case, a colon and a rest
WithScheme(n, c, r) ==
    [kind |-> "scheme", scheme |-> Chars(n), rest |-> r,
     url |-> Written(Chars(n), c) \o <<":">> \o r]

\* the same word with no colon after it
WithoutColon(n, c, r) ==
    [kind |-> "bare", scheme |-> <<>>, rest |-> r, url |-> Written(Chars(n), c) \o r]

\* a string with no scheme at all, "" included
Bare(r) == [kind |-> "bare", scheme |-> <<>>, rest |-> r, url |-> r]

\* a RAGSystem at rest and a candidate about to be validated: a URL with a
\* scheme, a word without colon, a string without scheme, or None
InitUrl ==
    /\ QueryInit
    /\ DocInit
    /\ \/ \E n \in SchemeNames, c \in Cases, r \in Rests : cand = WithScheme(n, c, r)
       \/ \E n \in SchemeNames, c \in Cases, r \in BareRests : cand = WithoutColon(n, c, r)
       \/ \E r \in BareRests : cand = Bare(r)
       \/ cand = NoCandidate
    /\ verdict = "pending"

\* is_safe_url is called on the candidate
CheckUrl ==
    /\ verdict = "pending"
    /\ verdict' = IF is_safe_url(cand.url) THEN "True" ELSE "False"
    /\ UNCHANGED <<cand, last_sources, pc, raw_sources, enhanced_sources, idx,
                   exc, recorded, lookup_calls, tm_calls, request, sm_calls>>
    /\ UNCHANGED docVars

NextUrl == CheckUrl

SpecUrl == InitUrl /\ [][NextUrl]_vars

\* ------------------------------------------------------------------ ingestion
\* one entry of the folder: whether it is a file with a supported extension,
\* whether process_course_document parses it, and the course it yields
\* (title NONE: no course) with its number of chunks
File(supported, parses, title, chunks) ==
    [supported |-> supported, parses |-> parses, title |-> title, chunks |-> chunks]

FileVals ==
    { File(FALSE, TRUE, "T1", 1),
      File(TRUE, FALSE, NONE, 0),
      File(TRUE, TRUE, NONE, 0),
      File(TRUE, TRUE, "T1", 1),
      File(TRUE, TRUE, "T2", 2) }

\* the documents add_course_document is given
DocVals == {f \in FileVals : f.supported}

\* the chunks of a document
ChunksOf(f) == {[title |-> f.title, index |-> k] : k \in 1..f.chunks}

\* what the except clause of add_course_document returns
Failure == [course |-> NONE, chunks |-> 0]

\* add_course_document(file_path): process, add the metadata, add the
\* chunks; any exception is caught and (None, 0) returned.  meta_ok and
\* content_ok tell whether the vector store call succeeds or raises.
AddCourseDocument ==
    /\ dpc \in {"idle", "done"}
    /\ \E f \in DocVals, meta_ok \in BOOLEAN, content_ok \in BOOLEAN :
          /\ ingest' = [op |-> "document", exists |-> TRUE, clear_existing |-> FALSE]
          /\ before' = [catalog |-> catalog, content |-> content]
          /\ files' = <<f>>
          /\ IF ~f.parses \/ f.title = NONE
             THEN /\ doc_ret' = Failure
                  /\ adds' = <<>>
                  /\ UNCHANGED <<catalog, content>>
             ELSE IF ~meta_ok
             THEN /\ doc_ret' = Failure
                  /\ adds' = <<>>
                  /\ UNCHANGED <<catalog, content>>
             ELSE IF ~content_ok
             THEN /\ catalog' = catalog \cup {f.title}
                  /\ doc_ret' = Failure
                  /\ adds' = <<[what |-> "metadata", title |-> f.title, chunks |-> 0]>>
                  /\ UNCHANGED content
             ELSE /\ catalog' = catalog \cup {f.title}
                  /\ content' = content \cup ChunksOf(f)
                  /\ doc_ret' = [course |-> f.title, chunks |-> f.chunks]
                  /\ adds' = <<[what |-> "metadata", title |-> f.title, chunks |-> 0],
                               [what |-> "content", title |-> f.title, chunks |-> f.chunks]>>
    /\ dpc' = "idle"
    /\ fidx' = 1
    /\ existing_course_titles' = {}
    /\ total_courses' = 0
    /\ total_chunks' = 0
    /\ UNCHANGED queryVars
    /\ UNCHANGED <<cand, verdict>>

\* add_course_folder with the folder looked for before the store is cleared
FolderStart_existsFirst ==
    /\ dpc \in {"idle", "done"}
    /\ \E exists \in BOOLEAN, clear_existing \in BOOLEAN :
       \E listing \in IF exists THEN SeqsUpTo(FileVals, MaxFiles) ELSE {<<>>} :
          /\ ingest' = [op |-> "folder", exists |-> exists,
                         clear_existing |-> clear_existing]
          /\ before' = [catalog |-> catalog, content |-> content]
          /\ catalog' = IF exists /\ clear_existing THEN {} ELSE catalog
          /\ content' = IF exists /\ clear_existing THEN {} ELSE content
          /\ files' = IF exists THEN listing ELSE <<>>
          /\ existing_course_titles' = IF exists THEN catalog' ELSE {}
          /\ dpc' = IF exists THEN "loop" ELSE "done"
    /\ total_courses' = 0
    /\ total_chunks' = 0
    /\ fidx' = 1
    /\ adds' = <<>>
    /\ doc_ret' = NoDoc
    /\ UNCHANGED queryVars
    /\ UNCHANGED <<cand, verdict>>

\* add_course_folder up to its loop: the totals start at 0, the store is
\* cleared if asked, a missing folder returns (0, 0), the titles in the
\* store are read
FolderStart ==
    /\ dpc \in {"idle", "done"}
    /\ \E exists \in BOOLEAN, clear_existing \in BOOLEAN :
       \E listing \in IF exists THEN SeqsUpTo(FileVals, MaxFiles) ELSE {<<>>} :
          /\ ingest' = [op |-> "folder", exists |-> exists,
                       clear_existing |-> clear_existing]
          /\ before' = [catalog |-> catalog, content |-> content]
          /\ catalog' = IF clear_existing THEN {} ELSE catalog
          /\ content' = IF clear_existing THEN {} ELSE content
          /\ files' = IF exists THEN listing ELSE <<>>
          /\ existing_course_titles' = IF exists THEN catalog' ELSE {}
          /\ dpc' = IF exists THEN "loop" ELSE "done"
    /\ total_courses' = 0
    /\ total_chunks' = 0
    /\ fidx' = 1
    /\ adds' = <<>>
    /\ doc_ret' = NoDoc
    /\ UNCHANGED queryVars
    /\ UNCHANGED <<cand, verdict>>

\* one iteration of the loop over the files of the folder
FolderFile ==
    /\ dpc = "loop"
    /\ fidx <= Len(files)
    /\ LET f == files[fidx] IN
       \E meta_ok \in BOOLEAN, content_ok \in BOOLEAN :
          IF ~f.supported \/ ~f.parses \/ f.title = NONE
                \/ f.title \in existing_course_titles
          THEN UNCHANGED <<catalog, content, existing_course_titles,
                           total_courses, total_chunks, adds>>
          ELSE IF ~meta_ok
          THEN UNCHANGED <<catalog, content, existing_course_titles,
                           total_courses, total_chunks, adds>>
          ELSE IF ~content_ok
          THEN /\ catalog' = catalog \cup {f.title}
               /\ adds' = Append(adds, [what |-> "metadata", title |-> f.title,
                                         chunks |-> 0])
               /\ UNCHANGED <<content, existing_course_titles,
                              total_courses, total_chunks>>
          ELSE /\ catalog' = catalog \cup {f.title}
               /\ content' = content \cup ChunksOf(f)
               /\ total_courses' = total_courses + 1
               /\ total_chunks' = total_chunks + f.chunks
               /\ existing_course_titles' = existing_course_titles \cup {f.title}
               /\ adds' = adds \o
                     <<[what |-> "metadata", title |-> f.title, chunks |-> 0],
                       [what |-> "content", title |-> f.title, chunks |-> f.chunks]>>
    /\ fidx' = fidx + 1
    /\ UNCHANGED <<dpc, ingest, files, doc_ret, before>>
    /\ UNCHANGED queryVars
    /\ UNCHANGED <<cand, verdict>>

\* return total_courses, total_chunks
FolderReturn ==
    /\ dpc = "loop"
    /\ fidx > Len(files)
    /\ dpc' = "done"
    /\ UNCHANGED <<catalog, content, ingest, files, fidx, existing_course_titles,
                   total_courses, total_chunks, doc_ret, before, adds>>
    /\ UNCHANGED queryVars
    /\ UNCHANGED <<cand, verdict>>

NextDocs ==
    \/ AddCourseDocument
    \/ FolderStart
    \/ FolderFile
    \/ FolderReturn

\* documents and folders ingested one call after the other
SpecDocs == Init /\ [][NextDocs]_vars

\* ------------------------------------------------------------------ claims
Ended(t) == pc[t] \in {"returned", "raised"}

\* the number of get_lesson_link calls query made for its k-th source
CallsAt(t, k) ==
    Cardinality({j \in DOMAIN lookup_calls[t] : lookup_calls[t][j].at = k})

LookupRaised(t) ==
    \E j \in DOMAIN lookup_calls[t] : lookup_calls[t][j].result = RAISE

\* a mapping with a text key
WellFormed(source) == source.kind = "dict" /\ source.text # ABSENT

\* a field that is present, not None and not the empty string
TruthyField(v) == v # ABSENT /\ v # NONE /\ v # ""

\* a source with a non-null lesson_number and a truthy course_title
WantsLink(source) ==
    /\ source.kind = "dict"
    /\ source.lesson_number \notin {ABSENT, NONE}
    /\ TruthyField(source.course_title)

Texts(items) == [k \in 1..Len(items) |-> items[k].text]

\* C1: get_lesson_link is called exactly once, with (course_title,
\* lesson_number), for each source that has a non-null lesson_number and a
\* truthy course_title, and never for any other source.
C1_LookupExactlyForTitledLessons ==
    \A t \in Threads : \A k \in 1..Len(raw_sources[t]) :
        LET source == raw_sources[t][k] IN
        /\ ~WantsLink(source) => CallsAt(t, k) = 0
        /\ WantsLink(source) =>
              /\ CallsAt(t, k) <= 1
              /\ (k < idx[t] \/ pc[t] = "returned") => CallsAt(t, k) = 1
              /\ \A j \in DOMAIN lookup_calls[t] :
                    lookup_calls[t][j].at = k =>
                        /\ lookup_calls[t][j].course_title = source.course_title
                        /\ lookup_calls[t][j].lesson_number = source.lesson_number

\* C2: a citation's link is non-null only if its source had course_title and
\* lesson_number, the lookup returned that link and the link passes
\* is_safe_url; a lookup result that fails is_safe_url yields link = null.
C2_LinkOnlyIfSafe ==
    \A t \in Threads : \A k \in 1..Len(enhanced_sources[t]) :
        LET link == enhanced_sources[t][k].link IN
        /\ link # NoneVal =>
              /\ WantsLink(raw_sources[t][k])
              /\ is_safe_url(link)
              /\ \E j \in DOMAIN lookup_calls[t] :
                    lookup_calls[t][j].at = k /\ lookup_calls[t][j].result = link
        /\ \A j \in DOMAIN lookup_calls[t] :
              (lookup_calls[t][j].at = k /\ ~is_safe_url(lookup_calls[t][j].result))
                  => link = NoneVal

\* C3: whatever the types of the raw sources, query returns normally with as
\* many citations as there are mappings with a text key; the other entries
\* are dropped without an exception and without a lookup.
C3_MalformedSourcesAreDropped ==
    \A t \in Threads :
        (Ended(t) /\ ~LookupRaised(t)) =>
            /\ pc[t] = "returned"
            /\ Len(enhanced_sources[t]) =
                  Cardinality({k \in 1..Len(raw_sources[t]) :
                                  WellFormed(raw_sources[t][k])})
            /\ \A k \in 1..Len(raw_sources[t]) :
                  ~WellFormed(raw_sources[t][k]) => CallsAt(t, k) = 0

\* C4: when the lookup raises for a source, no exception leaves query; that
\* source's citation has link = null and every source of the batch still
\* gets its citation.
C4_LookupErrorIsAbsorbed ==
    \A t \in Threads :
        LookupRaised(t) =>
            /\ pc[t] # "raised"
            /\ pc[t] = "returned" =>
                  /\ Len(enhanced_sources[t]) = Len(raw_sources[t])
                  /\ \A j \in DOMAIN lookup_calls[t] :
                        lookup_calls[t][j].result = RAISE =>
                            enhanced_sources[t][lookup_calls[t][j].at].link = NoneVal

\* C5: for a batch of mappings that all have a text key, query emits one
\* citation per source, in order, with the source's text, whatever the
\* lookup returns.
C5_OneCitationPerSourceInOrder ==
    \A t \in Threads :
        ( /\ Ended(t)
          /\ ~LookupRaised(t)
          /\ \A k \in 1..Len(raw_sources[t]) : WellFormed(raw_sources[t][k]) ) =>
            /\ pc[t] = "returned"
            /\ Texts(enhanced_sources[t]) = Texts(raw_sources[t])

C7_LinkIsWhatLookupReturned ==
    \A t \in Threads : \A j \in DOMAIN lookup_calls[t] :
        LET call == lookup_calls[t][j]
            source == raw_sources[t][call.at] IN
        (WantsLink(source) /\ call.result # RAISE /\ is_safe_url(call.result)) =>
            /\ call.at <= Len(enhanced_sources[t])
            /\ enhanced_sources[t][call.at].link = call.result
            /\ enhanced_sources[t][call.at].text = source.text
            /\ call.course_title = source.course_title
            /\ call.lesson_number = source.lesson_number

\* C7 witness: query returned two citations, each with the link looked up
\* for its own source
C7_Witness ==
    /\ pc[1] = "returned"
    /\ raw_sources[1] = <<Src("A", "Python", "1"), Src("B", "Python", "0")>>
    /\ enhanced_sources[1] =
          <<[text |-> "A", link |-> LinkA], [text |-> "B", link |-> LinkB]>>

\* C8: with two queries running in parallel on one RAGSystem, the citations
\* a query returns are those of the sources its own tool call recorded.
C8_QueriesShareNoSources ==
    \A t \in Threads :
        pc[t] = "returned" => Texts(enhanced_sources[t]) = Texts(recorded[t])

\* C9: in any sequence of queries run one after the other, including after
\* a query that ended with an exception, the citations a query returns are
\* those of the tool output of that same query.
C9_CitationsAreFreshPerQuery ==
    pc[1] = "returned" => Texts(enhanced_sources[1]) = Texts(recorded[1])

\* C10: every query call calls reset_sources exactly once, after it has
\* read get_last_sources and built the citations.
C10_ResetOnceAfterRead ==
    \A t \in Threads :
        /\ Ended(t) => tm_calls[t] = <<"get_last_sources", "reset_sources">>
        /\ (\E k \in DOMAIN tm_calls[t] : tm_calls[t][k] = "reset_sources") =>
              /\ tm_calls[t] = <<"get_last_sources", "reset_sources">>
              /\ Len(enhanced_sources[t]) = Len(raw_sources[t])

\* C11: a query call made with a session id that returns has called
\* add_exchange exactly once, with the session id, the prompt ("Answer this
\* question about course materials: " followed by the query) and the
\* generated response.
C11_ExchangeRecordsThePrompt ==
    \A t \in Threads :
        (pc[t] = "returned" /\ HasSession(request[t].session_id)) =>
            sm_calls[t] = <<[session_id |-> request[t].session_id,
                             user_message |-> Prompt(request[t].query),
                             response |-> Response]>>

\* an add_course_folder call on an existing folder has returned
FolderDone == dpc = "done" /\ ingest.op = "folder" /\ ingest.exists

\* an add_course_folder call on a missing folder has returned
MissingFolderDone == dpc = "done" /\ ingest.op = "folder" /\ ~ingest.exists

\* an add_course_document call has returned
DocumentDone == dpc = "idle" /\ ingest.op = "document"

\* the titles in the store when the loop of add_course_folder starts
StartTitles == IF ingest.clear_existing THEN {} ELSE before.catalog

\* the additions of one kind the call made for a title
AddsOf(what, title) ==
    {i \in DOMAIN adds : adds[i].what = what /\ adds[i].title = title}

AddedTitles == {adds[i].title : i \in DOMAIN adds}

RECURSIVE SumChunks(_)
SumChunks(s) == IF s = <<>> THEN 0 ELSE Head(s).chunks + SumChunks(Tail(s))

\* C12: when an add_course_folder call has returned, no title had its
\* metadata or its chunks added more than once by the call, no title that was
\* in the store when the call started was added, total_courses is the number
\* of distinct titles added and total_chunks the sum of the chunk counts
\* added.
C12_EachTitleAddedOnce ==
    FolderDone =>
        /\ \A title \in AddedTitles :
              /\ Cardinality(AddsOf("metadata", title)) <= 1
              /\ Cardinality(AddsOf("content", title)) <= 1
              /\ title \notin StartTitles
        /\ total_courses = Cardinality(AddedTitles)
        /\ total_chunks = SumChunks(adds)

\* C13: when an add_course_folder call on a missing folder has returned, it
\* returned (0, 0) and the vector store is what it was when the call was
\* made, whatever clear_existing was.
C13_MissingFolderLeavesStore ==
    MissingFolderDone =>
        /\ total_courses = 0
        /\ total_chunks = 0
        /\ catalog = before.catalog
        /\ content = before.content

\* C13, amended: when an add_course_folder call on a missing folder has
\* returned, it returned (0, 0); the vector store is what it was when the
\* call was made if clear_existing was false, and is empty if it was true.
C13_MissingFolderClearsIfAsked ==
    MissingFolderDone =>
        /\ total_courses = 0
        /\ total_chunks = 0
        /\ ~ingest.clear_existing =>
              catalog = before.catalog /\ content = before.content
        /\ ingest.clear_existing => catalog = {} /\ content = {}

\* a call on a missing folder with clear_existing, made on a store that held
\* a course with its chunks, has returned
C13_Witness ==
    /\ MissingFolderDone
    /\ ingest.clear_existing
    /\ before.catalog # {}
    /\ before.content # {}
    /\ catalog = {}
    /\ content = {}

\* C14: when add_course_document has returned (it always returns), then if
\* it returned (None, 0) the vector store holds what it held before the call,
\* and if it returned (course, n) the store holds the course's metadata and
\* all n chunks of the document.
C14_DocumentAllOrNothing ==
    DocumentDone =>
        IF doc_ret.course = NONE
        THEN /\ doc_ret.chunks = 0
             /\ catalog = before.catalog
             /\ content = before.content
        ELSE /\ doc_ret.course = files[1].title
             /\ doc_ret.chunks = files[1].chunks
             /\ doc_ret.course \in catalog
             /\ ChunksOf(files[1]) \subseteq content

====
